---- MODULE Spec2Model ----
(***************************************************************************)
(* State-machine model of script(1).js, the interactivity layer of the     *)
(* Vancouver rezoning guide: tab switching, detail panels, the decision    *)
(* tree modal, the glossary filter and the free-text search.               *)
(*                                                                         *)
(* Text is modelled as a sequence of one-character strings so that         *)
(* toLowerCase, trim and includes are computed rather than assumed.        *)
(***************************************************************************)
EXTENDS Integers, Sequences, FiniteSets, TLC

\* ------------------------------------------------------------------------
\* Bounds of the exploration
\* ------------------------------------------------------------------------
\* live notification elements / pending 100 ms timers beyond which a handler
\* that would add one more is not explored
MaxNotes == 2
MaxShortTimers == 1
\* largest step number among the authored questions
MaxStep == 3
\* longest text typed into the glossary search field
MaxQueryLen == 2
\* the largest number of tabs the index arithmetic is compared over
MaxTabs == 4

\* ------------------------------------------------------------------------
\* Strings
\* ------------------------------------------------------------------------
Range(s) == {s[i] : i \in 1..Len(s)}

LowerChar(c) ==
    CASE c = "A" -> "a"
      [] c = "B" -> "b"
      [] c = "C" -> "c"
      [] c = "D" -> "d"
      [] OTHER -> c

toLowerCase(s) == [i \in 1..Len(s) |-> LowerChar(s[i])]

IsWhitespace(c) == c = " "

RECURSIVE trimStart(_)
trimStart(s) ==
    IF s # <<>> /\ IsWhitespace(Head(s)) THEN trimStart(Tail(s)) ELSE s

RECURSIVE trimEnd(_)
trimEnd(s) ==
    IF s # <<>> /\ IsWhitespace(s[Len(s)])
    THEN trimEnd(SubSeq(s, 1, Len(s) - 1))
    ELSE s

trim(s) == trimEnd(trimStart(s))

includes(s, t) ==
    \E i \in 0..(Len(s) - Len(t)) : SubSeq(s, i + 1, i + Len(t)) = t

\* ------------------------------------------------------------------------
\* The presentation tree (static content of the page)
\* ------------------------------------------------------------------------
\* Tab controls in document order (their data-tab values) and tab panels.
TabOrder == <<"resident", "developer", "planner">>
TabIds == Range(TabOrder)
TabPanelIds == {"resident-panel", "developer-panel", "planner-panel"}
\* Arguments switchTab can be called with: the tab controls' ids and, through
\* the exported function, an id that has neither a control nor a panel.
TabArgs == TabIds \cup {"unknown"}

\* Timeline items (each holds one timeline card) in document order.
TimelineOrder == <<"item1", "item2">>
TimelineItems == Range(TimelineOrder)
CardText == [item1 |-> <<"A", "b">>, item2 |-> <<"a">>]
HasInfluence == [item1 |-> TRUE, item2 |-> FALSE]

\* Detail panels in document order, and the expand buttons controlling them.
DetailPanelOrder == <<"p1", "p2">>
Panels == Range(DetailPanelOrder)
PanelText == [p1 |-> <<"B", "c">>, p2 |-> <<"b", " ", "D">>]
ButtonOrder == <<"btn1", "btn2">>
Buttons == Range(ButtonOrder)
AriaControls == [btn1 |-> "p1", btn2 |-> "p2"]

\* Queries typed into the search field.
Queries ==
    { <<>>, <<" ">>, <<"B">>, <<" ", "d", " ">>, <<"z">> }

\* the queries among them that match a detail panel
MatchingQueries == { <<"B">>, <<" ", "d", " ">> }

NoNote == [type |-> "", text |-> "", count |-> 0, term |-> <<>>]

VARIABLES
    activeTab,        \* state.activeTab
    expandedPanels,   \* state.expandedPanels
    tabSelected,      \* tab control -> aria-selected / class 'active'
    tabPanelHidden,   \* tab panel -> hidden
    itemOpacity,      \* timeline item -> style.opacity
    panelHidden,      \* detail panel -> hidden
    ariaExpanded,     \* expand button -> aria-expanded
    highlighted,      \* elements carrying class 'search-highlight'
    notifications,    \* notification elements appended to the body
    timers,           \* pending setTimeout callbacks, in scheduling order
    modalHidden,      \* decisionTreeModal.hidden
    bodyOverflow,     \* document.body.style.overflow
    decisionTreeStep, \* state.decisionTreeStep
    activeSteps,      \* .decision-step nodes with class 'active' (data-step)
    activeResults,    \* .decision-result nodes with class 'active'
    questions,        \* authored: data-step of the .decision-step nodes
    choices,          \* authored: the .btn-decision buttons
    glossaryOpen,     \* state.glossaryOpen
    glossaryHidden,   \* glossary.hidden
    glossaryToggleExpanded, \* glossaryToggle's aria-expanded
    glossaryItems,    \* authored: the .glossary-item nodes
    removed,          \* detail panels and expand buttons that are no longer
                      \*   in the document
    blob,             \* localStorage item 'rezoningGuideState': <<>> while
                      \*   absent, else a one-element sequence
    itemHidden,       \* glossary item -> hidden
    focused,          \* the element holding keyboard focus
    alerts,           \* alert() notices raised by the last handler run
    eventLog,         \* triples passed to trackEvent by the last handler run
    thrown,           \* the exception the last handler run ended with, if any
    lastOp,           \* history: the operation that produced this state
    snap,             \* history: detail-panel state before the last operation
    treeSnap,         \* history: decision-tree state before the last operation
    repeated          \* history: the last two operations were clicks on the
                      \*          same expand button, nothing in between

tabVars == <<activeTab, tabSelected, tabPanelHidden, itemOpacity>>
panelVars == <<expandedPanels, panelHidden, ariaExpanded, highlighted,
               notifications>>
treeVars == <<decisionTreeStep, activeSteps, activeResults>>
modalVars == <<modalHidden, bodyOverflow>>
glossaryVars == <<glossaryOpen, glossaryHidden, glossaryToggleExpanded>>
\* what no handler of the page writes
authored == <<questions, choices, glossaryItems, removed, blob>>

vars == <<tabVars, panelVars, treeVars, modalVars, glossaryVars, authored,
          itemHidden, focused, timers, alerts, eventLog, thrown, lastOp,
          snap, treeSnap, repeated>>

Op(name, target, term) == [op |-> name, target |-> target, term |-> term]

\* The detail-panel part of the page, threaded through the handlers.
PanelState ==
    [hidden |-> panelHidden, aria |-> ariaExpanded, list |-> expandedPanels,
     hl |-> highlighted, timers |-> timers, notes |-> notifications,
     error |-> ""]

Snapshot ==
    [hidden |-> panelHidden, aria |-> ariaExpanded, list |-> expandedPanels,
     hl |-> highlighted]

\* the decision tree and the two overlays (modal, glossary)
TreeSnapshot ==
    [step |-> decisionTreeStep, steps |-> activeSteps,
     results |-> activeResults, hidden |-> modalHidden,
     glossaryHidden |-> glossaryHidden]

Timer(kind, delay, panel, elems, note) ==
    [kind |-> kind, delay |-> delay, panel |-> panel, elems |-> elems,
     note |-> note]

\* ------------------------------------------------------------------------
\* Tab Controller
\* ------------------------------------------------------------------------
\* variant: the event is not passed on
trackEvent_Dropped(log, category, action, label) == log

trackEvent(log, category, action, label) ==
    Append(log, <<category, action, label>>)

highlightRelevantSteps(tabId) ==
    [i \in TimelineItems |->
        IF tabId = "resident" /\ ~HasInfluence[i] THEN "0.7" ELSE "1"]

\* variant: empties the list without touching the nodes
collapseAllPanels_ListOnly(s) == [s EXCEPT !.list = <<>>]

\* document.querySelector(`[aria-controls="${panelId}"]`): the first such
\* button in document order, as a set of at most one element
QueryButton(panelId) ==
    LET found == {k \in 1..Len(ButtonOrder) :
                     /\ AriaControls[ButtonOrder[k]] = panelId
                     /\ ButtonOrder[k] \notin removed}
    IN  IF found = {} THEN {}
        ELSE {ButtonOrder[CHOOSE k \in found : \A j \in found : k <= j]}

\* variant: the callback without its two null checks
CollapseOne_Unguarded(s, panelId) ==
    IF panelId \in removed THEN [s EXCEPT !.error = "TypeError"]
    ELSE IF QueryButton(panelId) = {}
         THEN [s EXCEPT !.hidden[panelId] = TRUE, !.error = "TypeError"]
         ELSE [s EXCEPT
                 !.hidden[panelId] = TRUE,
                 !.aria = [b \in Buttons |->
                             IF b \in QueryButton(panelId)
                             THEN "false" ELSE s.aria[b]]]

\* the forEach callback of collapseAllPanels for one listed id
CollapseOne(s, panelId) ==
    LET s1 == IF panelId \notin removed
              THEN [s EXCEPT !.hidden[panelId] = TRUE] ELSE s
    IN  [s1 EXCEPT !.aria = [b \in Buttons |->
                                IF b \in QueryButton(panelId)
                                THEN "false" ELSE s.aria[b]]]

\* forEach: an exception in a callback ends the loop
RECURSIVE CollapseEach(_, _)
CollapseEach(s, ids) ==
    IF ids = <<>> \/ s.error # "" THEN s
    ELSE CollapseEach(CollapseOne(s, Head(ids)), Tail(ids))

collapseAllPanels(s) ==
    LET r == CollapseEach(s, s.list)
    IN  IF r.error # "" THEN r ELSE [r EXCEPT !.list = <<>>]

\* ------------------------------------------------------------------------
\* Timeline / Panel Controller
\* ------------------------------------------------------------------------
\* variant: the collapse branch leaves the id in state.expandedPanels
toggleDetailPanel_KeepId(s, panelId, button) ==
    IF panelId \in removed THEN [s EXCEPT !.error = "TypeError"] ELSE
    IF s.aria[button] = "true"
    THEN [s EXCEPT !.hidden[panelId] = TRUE,
                   !.aria[button] = "false"]
    ELSE [s EXCEPT !.hidden[panelId] = FALSE,
                   !.aria[button] = "true",
                   !.list = Append(s.list, panelId),
                   !.timers = Append(s.timers,
                                Timer("scroll", 100, panelId, {}, NoNote))]

\* variant: the collapse branch empties state.expandedPanels
toggleDetailPanel_DropAll(s, panelId, button) ==
    IF panelId \in removed THEN [s EXCEPT !.error = "TypeError"] ELSE
    IF s.aria[button] = "true"
    THEN [s EXCEPT !.hidden[panelId] = TRUE,
                   !.aria[button] = "false",
                   !.list = <<>>]
    ELSE [s EXCEPT !.hidden[panelId] = FALSE,
                   !.aria[button] = "true",
                   !.list = Append(s.list, panelId),
                   !.timers = Append(s.timers,
                                Timer("scroll", 100, panelId, {}, NoNote))]

\* variant: collapsing a panel cancels its pending scroll
toggleDetailPanel_CancelScroll(s, panelId, button) ==
    IF panelId \in removed THEN [s EXCEPT !.error = "TypeError"] ELSE
    IF s.aria[button] = "true"
    THEN [s EXCEPT !.hidden[panelId] = TRUE,
                   !.aria[button] = "false",
                   !.list = SelectSeq(s.list, LAMBDA id : id # panelId),
                   !.timers = SelectSeq(s.timers,
                                  LAMBDA t : ~(t.kind = "scroll"
                                               /\ t.panel = panelId))]
    ELSE [s EXCEPT !.hidden[panelId] = FALSE,
                   !.aria[button] = "true",
                   !.list = Append(s.list, panelId),
                   !.timers = Append(s.timers,
                                  Timer("scroll", 100, panelId, {}, NoNote))]

toggleDetailPanel(s, panelId, button) ==
    IF panelId \in removed THEN [s EXCEPT !.error = "TypeError"] ELSE
    IF s.aria[button] = "true"
    THEN [s EXCEPT !.hidden[panelId] = TRUE,
                   !.aria[button] = "false",
                   !.list = SelectSeq(s.list, LAMBDA id : id # panelId)]
    ELSE [s EXCEPT !.hidden[panelId] = FALSE,
                   !.aria[button] = "true",
                   !.list = Append(s.list, panelId),
                   !.timers = Append(s.timers,
                                Timer("scroll", 100, panelId, {}, NoNote))]

\* ------------------------------------------------------------------------
\* Search Controller
\* ------------------------------------------------------------------------
TimelineMatches(searchTerm) ==
    LET hit == SelectSeq(TimelineOrder,
                 LAMBDA i : includes(toLowerCase(CardText[i]), searchTerm))
    IN  [k \in 1..Len(hit) |-> [type |-> "timeline", element |-> hit[k]]]

DetailMatches(searchTerm) ==
    LET hit == SelectSeq(DetailPanelOrder,
                 LAMBDA p : includes(toLowerCase(PanelText[p]), searchTerm))
    IN  [k \in 1..Len(hit) |-> [type |-> "detail", element |-> hit[k]]]

SearchMatches(searchTerm) ==
    TimelineMatches(searchTerm) \o DetailMatches(searchTerm)

\* document.querySelector('[aria-controls="panelId"]'): first such button
ButtonsFor(panelId) ==
    SelectSeq(ButtonOrder, LAMBDA b : AriaControls[b] = panelId)

\* variant: clicks the trigger of every detail match, expanded or not
HighlightMatch_AlwaysClick(s, match) ==
    LET s1 == [s EXCEPT !.hl = s.hl \cup {match.element}]
        bs == ButtonsFor(match.element)
    IN  IF match.type = "detail" /\ bs # <<>>
        THEN toggleDetailPanel(s1, AriaControls[bs[1]], bs[1])
        ELSE s1

HighlightMatch(s, match) ==
    LET s1 == [s EXCEPT !.hl = s.hl \cup {match.element}]
        bs == ButtonsFor(match.element)
    IN  IF match.type = "detail" /\ bs # <<>> /\ s1.aria[bs[1]] = "false"
        THEN toggleDetailPanel(s1, AriaControls[bs[1]], bs[1])
        ELSE s1

RECURSIVE HighlightEach(_, _)
HighlightEach(s, matches) ==
    IF matches = <<>> THEN s
    ELSE HighlightEach(HighlightMatch(s, Head(matches)), Tail(matches))

\* variant: no timer is scheduled for the markers
highlightSearchResults_NoTimer(s, matches) ==
    HighlightEach([s EXCEPT !.hl = {}], matches)

highlightSearchResults(s, matches) ==
    LET s1 == HighlightEach([s EXCEPT !.hl = {}], matches)
    IN  [s1 EXCEPT !.timers =
            Append(s1.timers,
                Timer("clearHighlight", 5000, "",
                      {matches[k].element : k \in 1..Len(matches)}, NoNote))]

showNotification(s, message, type) ==
    LET note == [type |-> type, text |-> message.text,
                 count |-> message.count, term |-> message.term]
    IN  [s EXCEPT
            !.notes = Append(s.notes, [note |-> note,
                                       animation |-> "slideInRight"]),
            !.timers = Append(s.timers, Timer("dismiss", 5000, "", {}, note))]

performSearch(s, query) ==
    LET searchTerm == trim(toLowerCase(query))
        matches == SearchMatches(searchTerm)
    IN  IF Len(matches) > 0
        THEN showNotification(
                 highlightSearchResults(s, matches),
                 [text |-> "Found", count |-> Len(matches),
                  term |-> searchTerm],
                 "info")
        ELSE showNotification(s,
                 [text |-> "No results found", count |-> 0,
                  term |-> searchTerm],
                 "warning")

\* ------------------------------------------------------------------------
\* Decision Tree Controller
\* ------------------------------------------------------------------------
Digits == <<"0", "1", "2", "3", "4", "5", "6", "7", "8", "9">>
DigitValue(c) == (CHOOSE k \in 1..10 : Digits[k] = c) - 1

\* parseInt on a string of decimal digits
RECURSIVE ParseDigits(_, _)
ParseDigits(str, acc) ==
    IF str = <<>> THEN acc
    ELSE ParseDigits(Tail(str), 10 * acc + DigitValue(Head(str)))
parseInt(str) == ParseDigits(str, 0)

\* `${stepNumber}` for a non-negative integer
RECURSIVE NumberToString(_)
NumberToString(n) ==
    IF n < 10 THEN <<Digits[n + 1]>>
    ELSE NumberToString(n \div 10) \o <<Digits[(n % 10) + 1]>>

\* The result nodes of the page, and what a button's data-result may name.
ResultIds == {"rezoning-required", "no-rezoning"}
ResultRefs == {"", "rezoning-required", "no-rezoning", "unlisted"}
\* What a button's data-next may hold: nothing, a step number, a numeral
\* with a leading zero.
NextRefs ==
    {<<>>, <<"0", "2">>} \cup {NumberToString(n) : n \in 0..MaxStep}
StepAttrs == {NumberToString(n) : n \in 1..MaxStep}
AllChoices == [next : NextRefs, result : ResultRefs]
PositiveChoices ==
    {c \in AllChoices : c.next = <<>> \/ parseInt(c.next) >= 1}

\* variant: the result nodes are left as they are
showDecisionStep_KeepResults(stepNumber) ==
    [step |-> stepNumber,
     steps |-> IF NumberToString(stepNumber) \in questions
               THEN {NumberToString(stepNumber)} ELSE {},
     results |-> activeResults]

showDecisionStep(stepNumber) ==
    [step |-> stepNumber,
     steps |-> IF NumberToString(stepNumber) \in questions
               THEN {NumberToString(stepNumber)} ELSE {},
     results |-> {}]

\* variant: the question nodes are left as they are
showDecisionResult_KeepSteps(resultType) ==
    [step |-> decisionTreeStep,
     steps |-> activeSteps,
     results |-> IF resultType \in ResultIds THEN {resultType} ELSE {}]

\* variant: showing a result counts as one more step
showDecisionResult_AdvanceStep(resultType) ==
    [step |-> decisionTreeStep + 1,
     steps |-> {},
     results |-> IF resultType \in ResultIds THEN {resultType} ELSE {}]

showDecisionResult(resultType) ==
    [step |-> decisionTreeStep,
     steps |-> {},
     results |-> IF resultType \in ResultIds THEN {resultType} ELSE {}]

TreeUnchanged ==
    [step |-> decisionTreeStep, steps |-> activeSteps,
     results |-> activeResults]

handleDecisionTreeChoice(button) ==
    IF button.next # <<>>
    THEN showDecisionStep(parseInt(button.next))
    ELSE IF button.result # ""
         THEN showDecisionResult(button.result)
         ELSE TreeUnchanged

\* variant: the guard admits step 1
goBackDecision_FromOne ==
    IF decisionTreeStep >= 1
    THEN showDecisionStep(decisionTreeStep - 1)
    ELSE TreeUnchanged

goBackDecision ==
    IF decisionTreeStep > 1
    THEN showDecisionStep(decisionTreeStep - 1)
    ELSE TreeUnchanged

SetTree(t) ==
    /\ decisionTreeStep' = t.step
    /\ activeSteps' = t.steps
    /\ activeResults' = t.results

\* ------------------------------------------------------------------------
\* Glossary Controller
\* ------------------------------------------------------------------------
GlossaryItemIds == {"g1", "g2"}
\* data-term of an entry (<<>> when the attribute is absent or empty)
TermTags == {<<>>, <<"a">>, <<"A", "b">>}
ItemTexts == {<<"A", "b">>, <<"b", " ", "a">>}
GlossaryChars == {"a", "A", "b", " "}
RECURSIVE StringsUpTo(_)
StringsUpTo(n) ==
    IF n = 0 THEN {<<>>}
    ELSE LET shorter == StringsUpTo(n - 1)
         IN  shorter \cup {Append(str, c) : str \in shorter, c \in GlossaryChars}
GlossaryQueries == StringsUpTo(MaxQueryLen)

filterGlossary(searchTerm) ==
    LET term == trim(toLowerCase(searchTerm))
    IN  [i \in GlossaryItemIds |->
            LET searchableText ==
                    IF glossaryItems[i].term # <<>>
                    THEN glossaryItems[i].term
                    ELSE toLowerCase(glossaryItems[i].text)
                matches == includes(searchableText, term)
            IN  term # <<>> /\ ~matches]

\* toggleGlossary, as a step of the handler that calls it
\* variant: the toggle button's attribute is not updated
ToggleGlossary_StaleAttribute ==
    /\ glossaryOpen' = ~glossaryOpen
    /\ glossaryHidden' = glossaryOpen
    /\ UNCHANGED glossaryToggleExpanded
    /\ timers' = IF ~glossaryOpen
                 THEN Append(timers, Timer("focus", 100, "", {}, NoNote))
                 ELSE timers

ToggleGlossary ==
    /\ glossaryOpen' = ~glossaryOpen
    /\ glossaryHidden' = glossaryOpen
    /\ glossaryToggleExpanded' = IF ~glossaryOpen THEN "true" ELSE "false"
    /\ timers' = IF ~glossaryOpen
                 THEN Append(timers, Timer("focus", 100, "", {}, NoNote))
                 ELSE timers

\* ------------------------------------------------------------------------
\* Initial state: the state object as constructed and the page as served
\* ------------------------------------------------------------------------
DefaultItems ==
    [i \in GlossaryItemIds |-> [term |-> <<>>, text |-> <<"A", "b">>]]

InitPage ==
    /\ activeTab = "resident"
    /\ expandedPanels = <<>>
    /\ tabSelected = [t \in TabIds |-> t = "resident"]
    /\ tabPanelHidden = [p \in TabPanelIds |-> p # "resident-panel"]
    /\ itemOpacity = [i \in TimelineItems |-> "1"]
    /\ panelHidden = [p \in Panels |-> TRUE]
    /\ ariaExpanded = [b \in Buttons |-> "false"]
    /\ highlighted = {}
    /\ notifications = <<>>
    /\ modalHidden = TRUE
    /\ bodyOverflow = ""
    /\ decisionTreeStep = 1
    /\ activeSteps = {<<"1">>}
    /\ activeResults = {}
    /\ glossaryOpen = FALSE
    /\ glossaryHidden = TRUE
    /\ glossaryToggleExpanded = "false"
    /\ itemHidden = [i \in GlossaryItemIds |-> FALSE]
    /\ focused = "body"
    /\ removed = {}
    /\ thrown = ""
    /\ timers = <<>>
    /\ alerts = <<>>
    /\ eventLog = <<>>
    /\ lastOp = Op("init", "", <<>>)
    /\ snap = Snapshot
    /\ treeSnap = TreeSnapshot
    /\ repeated = FALSE

Init ==
    /\ InitPage
    /\ questions = StepAttrs
    /\ choices = PositiveChoices
    /\ glossaryItems = DefaultItems
    /\ blob = <<>>

\* any authored decision tree that has a first question
InitTree ==
    /\ InitPage
    /\ questions \in {qs \in SUBSET StepAttrs : <<"1">> \in qs}
    /\ choices \in {AllChoices, PositiveChoices}
    /\ glossaryItems = DefaultItems
    /\ blob = <<>>

\* any authored glossary
InitGlossary ==
    /\ InitPage
    /\ questions = StepAttrs
    /\ choices = PositiveChoices
    /\ glossaryItems \in [GlossaryItemIds -> [term : TermTags, text : ItemTexts]]
    /\ blob = <<>>

\* Writes a panel-state record back to the variables.
SetPanelState(s) ==
    /\ panelHidden' = s.hidden
    /\ ariaExpanded' = s.aria
    /\ expandedPanels' = s.list
    /\ highlighted' = s.hl
    /\ timers' = s.timers
    /\ notifications' = s.notes
    /\ thrown' = s.error

WithinBounds(s) ==
    /\ Len(s.notes) <= MaxNotes
    /\ Len(SelectSeq(s.timers, LAMBDA t : t.delay = 100)) <= MaxShortTimers

\* A handler run that raises no alert and sends nothing to the event sink.
Quiet == alerts' = <<>> /\ eventLog' = <<>>

\* history of a step that is not an expand click
Record(op) ==
    /\ lastOp' = op
    /\ snap' = Snapshot
    /\ treeSnap' = TreeSnapshot
    /\ repeated' = FALSE

\* ------------------------------------------------------------------------
\* Actions: tabs, detail panels, search, timers
\* ------------------------------------------------------------------------
\* switchTab as bound at line 697: the tracking wrapper, then the original.
\* This is the call, as a step of the handler that makes it.
CallSwitchTab(tabId) ==
    /\ eventLog' = trackEvent(<<>>, "Navigation", "Tab Switch", tabId)
    /\ activeTab' = tabId
    /\ tabSelected' = [t \in TabIds |-> t = tabId]
    /\ tabPanelHidden' = [p \in TabPanelIds |-> ~(p = tabId \o "-panel")]
    /\ SetPanelState(collapseAllPanels(PanelState))
    /\ itemOpacity' = highlightRelevantSteps(tabId)

\* a direct call of the exported switchTab
SwitchTab(tabId) ==
    /\ CallSwitchTab(tabId)
    /\ Record(Op("switchTab", tabId, <<>>))
    /\ alerts' = <<>>
    /\ UNCHANGED <<treeVars, modalVars, glossaryVars, authored, itemHidden,
                   focused>>

\* click on a tab control: the listener passes the control's data-tab
TabClick(tab) ==
    /\ CallSwitchTab(tab)
    /\ Record(Op("tabClick", tab, <<>>))
    /\ alerts' = <<>>
    /\ UNCHANGED <<treeVars, modalVars, glossaryVars, authored, itemHidden,
                   focused>>

\* tabs[k] of the NodeList handed to handleTabKeyboard, k counted from 0
TabAt(k) == TabOrder[k + 1]
IndexOfTab(tab) == (CHOOSE k \in 1..Len(TabOrder) : TabOrder[k] = tab) - 1
NavigationKeys == {"ArrowLeft", "ArrowRight", "Home", "End"}
TabKeys == NavigationKeys \cup {"Enter", "Escape"}

\* variant: the arrows stop at the ends of the list
handleTabKeyboard_NoWrap(n, currentIndex, key) ==
    CASE key = "ArrowLeft" ->
            IF currentIndex - 1 < 0 THEN 0 ELSE currentIndex - 1
      [] key = "ArrowRight" ->
            IF currentIndex + 1 >= n THEN n - 1 ELSE currentIndex + 1
      [] key = "Home" -> 0
      [] key = "End" -> n - 1
      [] OTHER -> -1

\* newIndex of handleTabKeyboard over n tabs, -1 for a key without a case
handleTabKeyboard(n, currentIndex, key) ==
    CASE key = "ArrowLeft" ->
            IF currentIndex - 1 < 0 THEN n - 1 ELSE currentIndex - 1
      [] key = "ArrowRight" ->
            IF currentIndex + 1 >= n THEN 0 ELSE currentIndex + 1
      [] key = "Home" -> 0
      [] key = "End" -> n - 1
      [] OTHER -> -1

\* keydown without modifier keys delivered on a tab control: the tab's
\* listener (focus, then a click that runs the click listener), then the
\* document's Escape listener
TabKeydown(tab, key) ==
    LET newIndex == handleTabKeyboard(Len(TabOrder), IndexOfTab(tab), key)
    IN  /\ IF newIndex >= 0
           THEN /\ focused' = TabAt(newIndex)
                /\ CallSwitchTab(TabAt(newIndex))
                /\ UNCHANGED glossaryVars
           ELSE /\ eventLog' = <<>>
                /\ thrown' = ""
                /\ UNCHANGED <<tabVars, panelVars, focused>>
                /\ IF key = "Escape" /\ ~glossaryHidden
                   THEN ToggleGlossary
                   ELSE UNCHANGED <<glossaryVars, timers>>
        /\ Record(Op("tabKeydown", tab, <<key>>))
        /\ alerts' = <<>>
        /\ UNCHANGED <<treeVars, modalVars, authored, itemHidden>>

\* click on an expand button (initializeTimeline's listener)
ExpandButtonClick(button) ==
    LET s == toggleDetailPanel(PanelState, AriaControls[button], button)
    IN  /\ button \notin removed
        /\ WithinBounds(s)
        /\ SetPanelState(s)
        /\ lastOp' = Op("toggleDetailPanel", AriaControls[button], <<>>)
        /\ snap' = Snapshot
        /\ treeSnap' = TreeSnapshot
        /\ repeated' = (lastOp = Op("toggleDetailPanel",
                                     AriaControls[button], <<>>))
        /\ Quiet
        /\ UNCHANGED <<tabVars, treeVars, modalVars, glossaryVars, authored,
                       itemHidden, focused>>

CollapseAllPanels ==
    /\ SetPanelState(collapseAllPanels(PanelState))
    /\ Record(Op("collapseAllPanels", "", <<>>))
    /\ Quiet
    /\ UNCHANGED <<tabVars, treeVars, modalVars, glossaryVars, authored,
                   itemHidden, focused>>

\* variant: the query is lowercased but not trimmed
PerformSearch_NoTrim(query) ==
    /\ Record(Op("performSearch", "", query))
    /\ eventLog' = <<>>
    /\ UNCHANGED <<tabVars, treeVars, modalVars, glossaryVars, authored,
                   itemHidden, focused>>
    /\ IF toLowerCase(query) = <<>>
       THEN /\ alerts' = <<"Please enter a search term">>
            /\ thrown' = ""
            /\ UNCHANGED <<panelVars, timers>>
       ELSE LET s == performSearch(PanelState, query)
            IN  /\ WithinBounds(s)
                /\ SetPanelState(s)
                /\ alerts' = <<>>

PerformSearch(query) ==
    /\ Record(Op("performSearch", "", query))
    /\ eventLog' = <<>>
    /\ UNCHANGED <<tabVars, treeVars, modalVars, glossaryVars, authored,
                   itemHidden, focused>>
    /\ IF trim(toLowerCase(query)) = <<>>
       THEN /\ alerts' = <<"Please enter a search term">>
            /\ thrown' = ""
            /\ UNCHANGED <<panelVars, timers>>
       ELSE LET s == performSearch(PanelState, query)
            IN  /\ WithinBounds(s)
                /\ SetPanelState(s)
                /\ alerts' = <<>>

\* A pending timer may fire once no timer scheduled before it has a delay
\* that is at most its own.
CanFire(i) ==
    /\ i \in 1..Len(timers)
    /\ \A j \in 1..(i - 1) : timers[j].delay > timers[i].delay

RemoveAt(seq, i) == SubSeq(seq, 1, i - 1) \o SubSeq(seq, i + 1, Len(seq))

\* index of the first notification element equal to n, 0 if none
FirstNote(n) ==
    IF \E k \in 1..Len(notifications) : notifications[k] = n
    THEN CHOOSE k \in 1..Len(notifications) :
            /\ notifications[k] = n
            /\ \A j \in 1..(k - 1) : notifications[j] # n
    ELSE 0

\* variant: the callback removes only the markers of the search that
\* scheduled it
RemoveHighlights_OwnOnly(hl, elems) == {el \in hl : el \notin elems}

\* the highlight timer's callback: every element that carries the marker
\* loses it; elems are the elements the scheduling search had matched
RemoveHighlights(hl, elems) == {el \in hl : FALSE}

FireTimer(i) ==
    /\ CanFire(i)
    /\ thrown' = ""
    /\ Record(Op(timers[i].kind, timers[i].panel, <<>>))
    /\ Quiet
    /\ UNCHANGED <<tabVars, treeVars, modalVars, glossaryVars, authored,
                   itemHidden, panelHidden, ariaExpanded, expandedPanels>>
    /\ CASE timers[i].kind = "scroll" ->
              /\ timers' = RemoveAt(timers, i)
              /\ UNCHANGED <<highlighted, notifications, focused>>
         [] timers[i].kind = "focus" ->
              /\ timers' = RemoveAt(timers, i)
              /\ focused' = "glossarySearch"
              /\ UNCHANGED <<highlighted, notifications>>
         [] timers[i].kind = "clearHighlight" ->
              /\ timers' = RemoveAt(timers, i)
              /\ highlighted' = RemoveHighlights(highlighted, timers[i].elems)
              /\ UNCHANGED <<notifications, focused>>
         [] timers[i].kind = "dismiss" ->
              LET k == FirstNote([note |-> timers[i].note,
                                  animation |-> "slideInRight"])
              IN  /\ notifications' =
                        [notifications EXCEPT ![k].animation = "slideOutRight"]
                  /\ timers' = Append(RemoveAt(timers, i),
                                  Timer("remove", 300, "", {}, timers[i].note))
                  /\ UNCHANGED <<highlighted, focused>>
         [] timers[i].kind = "remove" ->
              LET k == FirstNote([note |-> timers[i].note,
                                  animation |-> "slideOutRight"])
              IN  /\ notifications' = RemoveAt(notifications, k)
                  /\ timers' = RemoveAt(timers, i)
                  /\ UNCHANGED <<highlighted, focused>>

\* Detail panels under every operation that expands or collapses them: a
\* tab switch collapses the panels in the same way whatever tab it goes to,
\* and a search touches them only when it has matches.
Next ==
    \/ \E t \in {"developer"} : SwitchTab(t)
    \/ \E b \in Buttons : ExpandButtonClick(b)
    \/ CollapseAllPanels
    \/ \E q \in MatchingQueries : PerformSearch(q)
    \/ \E i \in 1..Len(timers) : FireTimer(i)

Spec == Init /\ [][Next]_vars

\* Tabs: every argument of switchTab, over the same panel operations.
NextTabs ==
    \/ \E t \in TabArgs : SwitchTab(t)
    \/ \E b \in Buttons : ExpandButtonClick(b)
    \/ CollapseAllPanels
    \/ \E q \in {<<"B">>} : PerformSearch(q)
    \/ \E i \in 1..Len(timers) : FireTimer(i)

SpecTabs == Init /\ [][NextTabs]_vars

\* Search: every query, over panels expanded and collapsed by clicks.
NextSearch ==
    \/ \E b \in Buttons : ExpandButtonClick(b)
    \/ \E q \in Queries : PerformSearch(q)
    \/ \E i \in 1..Len(timers) : FireTimer(i)

SpecSearch == Init /\ [][NextSearch]_vars

\* ------------------------------------------------------------------------
\* Timers under fair scheduling
\* ------------------------------------------------------------------------
\* Searches among expand clicks and tab switches.
NextLive ==
    \/ \E q \in MatchingQueries : PerformSearch(q)
    \/ \E b \in Buttons : ExpandButtonClick(b)
    \/ \E t \in {"developer"} : SwitchTab(t)
    \/ \E i \in 1..Len(timers) : FireTimer(i)

\* Time passes: the pending timer that was scheduled first runs in the end,
\* whatever else the user does.
SpecLive == Init /\ [][NextLive]_vars /\ WF_vars(FireTimer(1))

\* ------------------------------------------------------------------------
\* Actions: decision tree modal
\* ------------------------------------------------------------------------
TreeFrame ==
    /\ Quiet
    /\ thrown' = ""
    /\ UNCHANGED <<tabVars, panelVars, authored, itemHidden>>

\* variant: the modal reopens where the last session stopped
OpenDecisionTreeModal_Resume ==
    /\ modalHidden' = FALSE
    /\ bodyOverflow' = "hidden"
    /\ UNCHANGED treeVars
    /\ focused' = "modalFirstButton"
    /\ Record(Op("openDecisionTreeModal", "", <<>>))
    /\ TreeFrame
    /\ UNCHANGED <<glossaryVars, timers>>

OpenDecisionTreeModal ==
    /\ modalHidden' = FALSE
    /\ bodyOverflow' = "hidden"
    /\ SetTree(showDecisionStep(1))
    /\ focused' = "modalFirstButton"
    /\ Record(Op("openDecisionTreeModal", "", <<>>))
    /\ TreeFrame
    /\ UNCHANGED <<glossaryVars, timers>>

\* closeDecisionTree, as a step of the handler that calls it
\* variant: closing leaves the page locked
CloseDecisionTree_KeepLock ==
    /\ modalHidden' = TRUE
    /\ UNCHANGED bodyOverflow
    /\ focused' = "openDecisionTree"

CloseDecisionTree ==
    /\ modalHidden' = TRUE
    /\ bodyOverflow' = ""
    /\ focused' = "openDecisionTree"

CloseButtonClick ==
    /\ ~modalHidden
    /\ CloseDecisionTree
    /\ Record(Op("closeButtonClick", "", <<>>))
    /\ TreeFrame
    /\ UNCHANGED <<treeVars, glossaryVars, timers>>

\* click inside the modal; target is the modal root or one of its descendants
ModalClick(target) ==
    /\ ~modalHidden
    /\ IF target = "decisionTreeModal"
       THEN CloseDecisionTree
       ELSE UNCHANGED <<modalVars, focused>>
    /\ Record(Op("modalClick", target, <<>>))
    /\ TreeFrame
    /\ UNCHANGED <<treeVars, glossaryVars, timers>>

\* keydown inside the modal, without modifier keys: the modal's listener,
\* then the document's listeners (glossary Escape, global shortcuts)
\* variant: the modal's listener keeps the key event to itself
ModalKeydown_StopPropagation(key) ==
    /\ ~modalHidden
    /\ IF key = "Escape"
       THEN CloseDecisionTree
       ELSE UNCHANGED <<modalVars, focused>>
    /\ UNCHANGED <<glossaryVars, timers>>
    /\ Record(Op("modalKeydown", key, <<>>))
    /\ TreeFrame
    /\ UNCHANGED treeVars

ModalKeydown(key) ==
    /\ ~modalHidden
    /\ IF key = "Escape"
       THEN CloseDecisionTree
       ELSE UNCHANGED <<modalVars, focused>>
    /\ IF key = "Escape" /\ ~glossaryHidden
       THEN ToggleGlossary
       ELSE UNCHANGED <<glossaryVars, timers>>
    /\ Record(Op("modalKeydown", key, <<>>))
    /\ TreeFrame
    /\ UNCHANGED treeVars

DecisionChoice(button) ==
    /\ ~modalHidden
    /\ SetTree(handleDecisionTreeChoice(button))
    /\ Record(Op("handleDecisionTreeChoice", button.result, button.next))
    /\ TreeFrame
    /\ UNCHANGED <<modalVars, glossaryVars, timers, focused>>

GoBackDecision ==
    /\ ~modalHidden
    /\ SetTree(goBackDecision)
    /\ Record(Op("goBackDecision", "", <<>>))
    /\ TreeFrame
    /\ UNCHANGED <<modalVars, glossaryVars, timers, focused>>

NextTree ==
    \/ OpenDecisionTreeModal
    \/ CloseButtonClick
    \/ \E target \in {"decisionTreeModal", "modalContent"} : ModalClick(target)
    \/ \E key \in {"Escape", "Enter"} : ModalKeydown(key)
    \/ \E button \in choices : DecisionChoice(button)
    \/ GoBackDecision

SpecTree == InitTree /\ [][NextTree]_vars

\* ------------------------------------------------------------------------
\* Actions: glossary filter
\* ------------------------------------------------------------------------
\* input event on the glossary search field
FilterGlossary(searchTerm) ==
    /\ itemHidden' = filterGlossary(searchTerm)
    /\ Record(Op("filterGlossary", "", searchTerm))
    /\ thrown' = ""
    /\ Quiet
    /\ UNCHANGED <<tabVars, panelVars, treeVars, modalVars, glossaryVars,
                   authored, focused, timers>>

NextGlossary == \E searchTerm \in GlossaryQueries : FilterGlossary(searchTerm)

SpecGlossary == InitGlossary /\ [][NextGlossary]_vars

\* ------------------------------------------------------------------------
\* Actions: glossary overlay and keyboard shortcuts
\* ------------------------------------------------------------------------
ShortTimersWithin ==
    Len(SelectSeq(timers', LAMBDA t : t.delay = 100)) <= MaxShortTimers

GlossaryFrame ==
    /\ thrown' = ""
    /\ UNCHANGED <<tabVars, panelVars, treeVars, modalVars, authored,
                   itemHidden>>

\* click on the glossary toggle button
GlossaryToggleClick ==
    /\ ToggleGlossary
    /\ ShortTimersWithin
    /\ Record(Op("glossaryToggleClick", "", <<>>))
    /\ Quiet
    /\ UNCHANGED focused
    /\ GlossaryFrame

\* click on the close button inside the open overlay
GlossaryCloseClick ==
    /\ ~glossaryHidden
    /\ ToggleGlossary
    /\ ShortTimersWithin
    /\ Record(Op("glossaryCloseClick", "", <<>>))
    /\ Quiet
    /\ UNCHANGED focused
    /\ GlossaryFrame

ShortcutKeys == {"Escape", "k", "g", "/", "x"}

\* keydown that reaches only the document's listeners (its target is outside
\* the modal and is not a tab): the glossary's Escape listener, then
\* handleGlobalKeyboard; ctrlOrMeta is e.ctrlKey || e.metaKey
DocumentKeydown(key, ctrlOrMeta) ==
    /\ IF (key = "Escape" /\ ~glossaryHidden) \/ (ctrlOrMeta /\ key = "g")
       THEN ToggleGlossary /\ ShortTimersWithin
       ELSE UNCHANGED <<glossaryVars, timers>>
    /\ focused' = IF ctrlOrMeta /\ key = "k" THEN "searchInput" ELSE focused
    /\ alerts' = IF ctrlOrMeta /\ key = "/"
                 THEN <<"Keyboard Shortcuts">> ELSE <<>>
    /\ eventLog' = <<>>
    /\ Record(Op("documentKeydown", IF ctrlOrMeta THEN "ctrl" ELSE "",
                 <<key>>))
    /\ GlossaryFrame

\* Tab navigation by click, by keyboard and by direct call, over panels that
\* a tab switch collapses and a glossary that Escape closes.
NextNav ==
    \/ \E tab \in TabIds : TabClick(tab)
    \/ \E tab \in TabIds, key \in TabKeys : TabKeydown(tab, key)
    \/ \E t \in TabArgs : SwitchTab(t)
    \/ \E b \in Buttons : ExpandButtonClick(b)
    \/ GlossaryToggleClick
    \/ \E i \in 1..Len(timers) : FireTimer(i)

SpecNav == Init /\ [][NextNav]_vars

\* The glossary overlay and the decision-tree modal under clicks, Escape
\* and the keyboard shortcuts.
NextOverlay ==
    \/ GlossaryToggleClick
    \/ GlossaryCloseClick
    \/ \E key \in ShortcutKeys, ctrlOrMeta \in BOOLEAN :
          DocumentKeydown(key, ctrlOrMeta)
    \/ OpenDecisionTreeModal
    \/ CloseButtonClick
    \/ \E key \in {"Escape", "Enter"} : ModalKeydown(key)
    \/ \E i \in 1..Len(timers) : FireTimer(i)

SpecOverlay == Init /\ [][NextOverlay]_vars

\* Every handler that schedules a deferred action, among the events that
\* undo what the action was scheduled for.
NextDefer ==
    \/ \E b \in Buttons : ExpandButtonClick(b)
    \/ \E t \in {"developer"} : SwitchTab(t)
    \/ GlossaryToggleClick
    \/ \E q \in {<<" ", "d", " ">>} : PerformSearch(q)
    \/ \E i \in 1..Len(timers) : FireTimer(i)

SpecDefer == Init /\ [][NextDefer]_vars

\* ------------------------------------------------------------------------
\* Actions: persistence
\* ------------------------------------------------------------------------
\* JSON.stringify(state): strings and the array of strings are written out
\* as they are, the number as its decimal numeral, the boolean as a keyword
JsonStringify(st) ==
    [activeTab |-> st.activeTab,
     expandedPanels |-> st.expandedPanels,
     decisionTreeStep |-> NumberToString(st.decisionTreeStep),
     glossaryOpen |-> IF st.glossaryOpen THEN "true" ELSE "false"]

JsonParse(text) ==
    [activeTab |-> text.activeTab,
     expandedPanels |-> text.expandedPanels,
     decisionTreeStep |-> parseInt(text.decisionTreeStep),
     glossaryOpen |-> text.glossaryOpen = "true"]

\* the state object of lines 9-14
StateRecord ==
    [activeTab |-> activeTab, expandedPanels |-> expandedPanels,
     decisionTreeStep |-> decisionTreeStep, glossaryOpen |-> glossaryOpen]

\* saveState: setItem either stores the blob or throws, and the exception is
\* caught and logged
SaveState(stored) ==
    /\ blob' = IF stored THEN <<JsonStringify(StateRecord)>> ELSE blob
    /\ Record(Op("saveState", IF stored THEN "stored" ELSE "failed", <<>>))
    /\ Quiet
    /\ thrown' = ""
    /\ UNCHANGED <<tabVars, panelVars, treeVars, modalVars, glossaryVars,
                   questions, choices, glossaryItems, removed, itemHidden,
                   focused, timers>>

\* The page is loaded again: a fresh document and a fresh state object;
\* pending timers are gone with the old document, the stored blob stays.
NewSession ==
    /\ activeTab' = "resident"
    /\ expandedPanels' = <<>>
    /\ tabSelected' = [t \in TabIds |-> t = "resident"]
    /\ tabPanelHidden' = [p \in TabPanelIds |-> p # "resident-panel"]
    /\ itemOpacity' = [i \in TimelineItems |-> "1"]
    /\ panelHidden' = [p \in Panels |-> TRUE]
    /\ ariaExpanded' = [b \in Buttons |-> "false"]
    /\ highlighted' = {}
    /\ notifications' = <<>>
    /\ modalHidden' = TRUE
    /\ bodyOverflow' = ""
    /\ decisionTreeStep' = 1
    /\ activeSteps' = {<<"1">>}
    /\ activeResults' = {}
    /\ glossaryOpen' = FALSE
    /\ glossaryHidden' = TRUE
    /\ glossaryToggleExpanded' = "false"
    /\ itemHidden' = [i \in GlossaryItemIds |-> FALSE]
    /\ focused' = "body"
    /\ removed' = {}
    /\ timers' = <<>>
    /\ thrown' = ""
    /\ Quiet
    /\ Record(Op("newSession", "", <<>>))
    /\ UNCHANGED <<questions, choices, glossaryItems, blob>>

\* loadState: without a stored blob nothing happens; with one,
\* Object.assign(state, parsed) writes the fields of the state object and
\* nothing else
LoadState ==
    /\ IF blob = <<>>
       THEN UNCHANGED <<activeTab, expandedPanels, decisionTreeStep,
                        glossaryOpen>>
       ELSE LET parsed == JsonParse(blob[1])
            IN  /\ activeTab' = parsed.activeTab
                /\ expandedPanels' = parsed.expandedPanels
                /\ decisionTreeStep' = parsed.decisionTreeStep
                /\ glossaryOpen' = parsed.glossaryOpen
    /\ Record(Op("loadState", "", <<>>))
    /\ Quiet
    /\ thrown' = ""
    /\ UNCHANGED <<tabSelected, tabPanelHidden, itemOpacity, panelHidden,
                   ariaExpanded, highlighted, notifications, activeSteps,
                   activeResults, modalVars, glossaryHidden,
                   glossaryToggleExpanded, authored, itemHidden, focused,
                   timers>>

\* A session that ends with a save, then a fresh session that starts with
\* a load (the source defines saveState and loadState and calls neither;
\* this is the order of calls their comments describe).
NextPersist ==
    \/ \E b \in Buttons : ExpandButtonClick(b)
    \/ \E t \in {"developer"} : SwitchTab(t)
    \/ GlossaryToggleClick
    \/ \E q \in {<<" ", "d", " ">>} : PerformSearch(q)
    \/ \E stored \in BOOLEAN :
          lastOp.op \notin {"saveState", "newSession", "loadState"}
             /\ blob = <<>> /\ SaveState(stored)
    \/ lastOp.op = "saveState" /\ NewSession
    \/ lastOp.op = "newSession" /\ LoadState
    \/ \E i \in 1..Len(timers) : FireTimer(i)

SpecPersist == Init /\ [][NextPersist]_vars

\* ------------------------------------------------------------------------
\* Actions: nodes leaving the document
\* ------------------------------------------------------------------------
\* Something other than these handlers takes a detail panel or an expand
\* button out of the document; the handlers find out when a lookup by id or
\* by selector returns null.
RemoveNode(node) ==
    /\ node \notin removed
    /\ removed' = removed \cup {node}
    /\ Record(Op("removeNode", node, <<>>))
    /\ Quiet
    /\ thrown' = ""
    /\ UNCHANGED <<tabVars, panelVars, treeVars, modalVars, glossaryVars,
                   questions, choices, glossaryItems, blob, itemHidden,
                   focused, timers>>

\* Panels expanded by clicks and collapsed together, by collapseAllPanels
\* and by a tab switch, while nodes go missing.
NextRemoval ==
    \/ \E b \in Buttons : ExpandButtonClick(b)
    \/ CollapseAllPanels
    \/ \E t \in {"developer"} : SwitchTab(t)
    \/ \E node \in Panels \cup Buttons : RemoveNode(node)
    \/ \E i \in 1..Len(timers) : FireTimer(i)

SpecRemoval == Init /\ [][NextRemoval]_vars

\* ------------------------------------------------------------------------
\* Properties of the tab controller (under SpecTabs), the panel controller
\* (under Spec) and the search controller (under SpecSearch)
\* ------------------------------------------------------------------------
Occurrences(seq, x) == Cardinality({i \in 1..Len(seq) : seq[i] = x})
TriggersOf(p) == {b \in Buttons : AriaControls[b] = p}
Expanded(p) ==
    /\ ~panelHidden[p]
    /\ \A b \in TriggersOf(p) : ariaExpanded[b] = "true"
    /\ Occurrences(expandedPanels, p) = 1
Collapsed(p) ==
    /\ panelHidden[p]
    /\ \A b \in TriggersOf(p) : ariaExpanded[b] # "true"
    /\ Occurrences(expandedPanels, p) = 0
WasOpen(p) ==
    \/ ~snap.hidden[p]
    \/ p \in Range(snap.list)
    \/ \E b \in TriggersOf(p) : snap.aria[b] = "true"
Blank(q) == \A i \in 1..Len(q) : q[i] = " "
\* the query as the search compares it
Needle(q) == trim(toLowerCase(q))
CardHits(q) ==
    {i \in TimelineItems : includes(toLowerCase(CardText[i]), Needle(q))}
PanelHits(q) ==
    {p \in Panels : includes(toLowerCase(PanelText[p]), Needle(q))}

\* C1: after switchTab(T), for a tab id T that has a tab control and a
\* matching '<T>-panel' tab panel, state.activeTab = T, the tab control of T
\* is the only one selected, T's tab panel is the only one visible,
\* state.expandedPanels is empty and every detail panel that was expanded
\* before is hidden with its trigger's expanded flag cleared.
C1_SwitchTabExclusive ==
    \A T \in TabIds :
        (lastOp = Op("switchTab", T, <<>>) /\ (T \o "-panel") \in TabPanelIds)
        => /\ activeTab = T
           /\ {t \in TabIds : tabSelected[t]} = {T}
           /\ {p \in TabPanelIds : ~tabPanelHidden[p]} = {T \o "-panel"}
           /\ expandedPanels = <<>>
           /\ \A p \in Panels : WasOpen(p) =>
                   /\ panelHidden[p]
                   /\ \A b \in TriggersOf(p) : ariaExpanded[b] = "false"

\* a tab switch away from the initial tab that found two panels expanded
C1_Witness ==
    /\ lastOp = Op("switchTab", "developer", <<>>)
    /\ Len(snap.list) = 2
    /\ \A p \in Panels : ~snap.hidden[p]
    /\ activeTab = "developer"

\* C2: in every state reachable by expand-button clicks, switchTab,
\* collapseAllPanels and performSearch, each detail panel is either expanded
\* (visible, flag 'true', id exactly once in state.expandedPanels) or
\* collapsed (hidden, flag not 'true', id absent); nothing in between.
C2_PanelsInSync == \A p \in Panels : Expanded(p) \/ Collapsed(p)

\* a search that opened the second panel while the first was open already
C2_Witness ==
    /\ Expanded("p1") /\ Expanded("p2")
    /\ lastOp.op = "performSearch"
    /\ snap.list = <<"p1">>

\* C3: two clicks in succession on the trigger of panel P return P's
\* visibility, its trigger's expanded flag and P's membership in
\* state.expandedPanels to their values before the first click, and leave
\* the visibility and membership of every other panel as they were.
C3_ToggleTwice ==
    [][\A P \in Panels :
        (/\ lastOp = Op("toggleDetailPanel", P, <<>>)
         /\ lastOp' = Op("toggleDetailPanel", P, <<>>)
         /\ repeated')
        => /\ panelHidden'[P] = snap.hidden[P]
           /\ \A b \in TriggersOf(P) : ariaExpanded'[b] = snap.aria[b]
           /\ (P \in Range(expandedPanels')) = (P \in Range(snap.list))
           /\ \A q \in Panels \ {P} :
                   /\ panelHidden'[q] = snap.hidden[q]
                   /\ (q \in Range(expandedPanels'))
                          = (q \in Range(snap.list))]_vars

\* the second of two successive clicks on p1's trigger, the other panel
\* being expanded throughout
C3_Witness ==
    /\ lastOp = Op("toggleDetailPanel", "p1", <<>>)
    /\ repeated
    /\ panelHidden["p1"]
    /\ ~panelHidden["p2"]

\* C5: performSearch with an empty or all-whitespace query raises the
\* 'enter a search term' notice and changes nothing else: state.activeTab,
\* state.expandedPanels, every panel's visibility and flag, the highlighted
\* elements, the notification elements and the pending timers stay the same.
C5_EmptySearchNoEffect ==
    [][\A q \in Queries :
        (lastOp' = Op("performSearch", "", q) /\ Blank(q))
        => /\ alerts' = <<"Please enter a search term">>
           /\ UNCHANGED <<activeTab, expandedPanels, decisionTreeStep,
                          glossaryOpen, tabSelected, tabPanelHidden,
                          panelHidden, ariaExpanded, highlighted,
                          notifications, timers>>]_vars

\* a whitespace-only search made while highlights, an expanded panel, a
\* notification and timers are all present
C5_Witness ==
    /\ lastOp = Op("performSearch", "", <<" ">>)
    /\ alerts = <<"Please enter a search term">>
    /\ highlighted # {}
    /\ expandedPanels # <<>>
    /\ notifications # <<>>
    /\ timers # <<>>

\* C6: after performSearch(Q) with a query that is not blank, every detail
\* panel whose text contains Q is expanded, whether it was collapsed or
\* expanded before, and no panel expanded before has been collapsed; when Q
\* matches exactly one detail panel and no timeline card the match list is
\* the single detail entry for that panel (one result reported, that panel
\* alone highlighted).
C6_SearchExpandsMatches ==
    \A q \in Queries :
        (lastOp = Op("performSearch", "", q) /\ ~Blank(q))
        => /\ \A p \in PanelHits(q) : Expanded(p)
           /\ \A p \in Panels : ~snap.hidden[p] => Expanded(p)
           /\ \A p \in Panels :
                 (PanelHits(q) = {p} /\ CardHits(q) = {})
                 => /\ SearchMatches(Needle(q))
                         = <<[type |-> "detail", element |-> p]>>
                    /\ highlighted = {p}
                    /\ notifications[Len(notifications)].note.count = 1

\* a search matching only p2, which was collapsed, with p1 expanded before
C6_Witness ==
    /\ lastOp = Op("performSearch", "", <<" ", "d", " ">>)
    /\ snap.hidden["p2"] /\ ~snap.hidden["p1"]
    /\ Expanded("p2") /\ Expanded("p1")

\* a search matching both panels, one of them expanded already
C6_WitnessAlreadyOpen ==
    /\ lastOp = Op("performSearch", "", <<"B">>)
    /\ ~snap.hidden["p1"] /\ snap.hidden["p2"]
    /\ Expanded("p1") /\ Expanded("p2")

\* C7: after performSearch(Q) with a non-blank Q contained in no timeline
\* card and no detail panel, from any reachable state, a warning
\* notification citing the query is shown, no element carries a highlight
\* marker and no panel has changed its expansion state.
C7_NoMatchLeavesNoHighlight ==
    \A q \in Queries :
        (/\ lastOp = Op("performSearch", "", q)
         /\ ~Blank(q)
         /\ PanelHits(q) = {} /\ CardHits(q) = {})
        => /\ notifications # <<>>
           /\ notifications[Len(notifications)].note.type = "warning"
           /\ notifications[Len(notifications)].note.term = Needle(q)
           /\ highlighted = {}
           /\ Snapshot = snap

\* ------------------------------------------------------------------------
\* Properties of the glossary filter (under SpecGlossary)
\* ------------------------------------------------------------------------
\* the text an entry is searched by: its term tag if present, else its text
Searchable(i) ==
    IF glossaryItems[i].term # <<>>
    THEN glossaryItems[i].term
    ELSE glossaryItems[i].text

\* C4: after filterGlossary(X) an entry is visible if and only if the
\* trimmed, lowercased X is empty or is a substring of the entry's
\* searchable text compared case-insensitively, whatever the letter case of
\* X, of the entry text and of the term tag.
C4_FilterCaseInsensitive ==
    \A X \in GlossaryQueries :
        lastOp = Op("filterGlossary", "", X)
        => \A i \in GlossaryItemIds :
               ~itemHidden[i]
               <=> \/ Needle(X) = <<>>
                   \/ includes(toLowerCase(Searchable(i)), Needle(X))

\* ------------------------------------------------------------------------
\* Properties of the decision tree controller (under SpecTree)
\* ------------------------------------------------------------------------
\* the number a string of decimal digits denotes
RECURSIVE Pow10(_)
Pow10(k) == IF k = 0 THEN 1 ELSE 10 * Pow10(k - 1)
Denotes(str) ==
    LET d(i) == DigitValue(str[i]) * Pow10(Len(str) - i)
        sum[i \in 0..Len(str)] == IF i = 0 THEN 0 ELSE sum[i - 1] + d(i)
    IN  sum[Len(str)]
QuestionsNumbered(n) == {q \in questions : Denotes(q) = n}

\* C8: right after the modal is opened, whatever came before,
\* state.decisionTreeStep = 1, the step-1 question is the only visible
\* question and no result node is visible.
C8_OpenStartsAtStepOne ==
    lastOp.op = "openDecisionTreeModal"
    => /\ decisionTreeStep = 1
       /\ activeSteps = QuestionsNumbered(1)
       /\ Cardinality(activeSteps) = 1
       /\ activeResults = {}
       /\ ~modalHidden

\* the modal reopened after a session that was closed on a result reached
\* from a later step
C8_Witness ==
    /\ lastOp.op = "openDecisionTreeModal"
    /\ treeSnap.hidden
    /\ treeSnap.step = 3
    /\ treeSnap.results = {"rezoning-required"}
    /\ activeSteps = {<<"1">>}

\* C9: goBack() at step 1 changes neither the step nor the visible nodes;
\* goBack() at step N > 1 sets the step to N-1 and, when a question numbered
\* N-1 exists, leaves exactly that question and no result visible; and the
\* step never falls below 1 when every authored next-step reference is at
\* least 1.
C9_GoBack ==
    /\ lastOp.op = "goBackDecision" =>
          /\ treeSnap.step = 1 =>
                /\ decisionTreeStep = 1
                /\ activeSteps = treeSnap.steps
                /\ activeResults = treeSnap.results
          /\ treeSnap.step > 1 =>
                /\ decisionTreeStep = treeSnap.step - 1
                /\ QuestionsNumbered(treeSnap.step - 1) # {} =>
                      /\ activeSteps = QuestionsNumbered(treeSnap.step - 1)
                      /\ Cardinality(activeSteps) = 1
                      /\ activeResults = {}
    /\ (\A c \in choices : c.next # <<>> => Denotes(c.next) >= 1)
          => decisionTreeStep >= 1

\* back from a result shown at step 3 to question 2
C9_Witness ==
    /\ lastOp.op = "goBackDecision"
    /\ treeSnap.step = 3
    /\ treeSnap.results # {}
    /\ decisionTreeStep = 2
    /\ activeSteps = {<<"2">>}

\* a back-navigation at step 1 with a result on display
C9_WitnessAtOne ==
    /\ lastOp.op = "goBackDecision"
    /\ treeSnap.step = 1
    /\ activeResults # {}

\* C10: choosing an option whose only reference is a next step n leaves
\* exactly the question numbered n visible, no result visible and
\* state.decisionTreeStep = n; choosing an option whose only reference is a
\* result r leaves exactly the result node r visible and no question visible.
C10_ChoiceShowsTarget ==
    lastOp.op = "handleDecisionTreeChoice"
    => LET next == lastOp.term
           result == lastOp.target
       IN  /\ (next # <<>> /\ result = "") =>
                  /\ activeSteps = QuestionsNumbered(Denotes(next))
                  /\ activeResults = {}
                  /\ decisionTreeStep = Denotes(next)
           /\ (next = <<>> /\ result # "") =>
                  /\ activeResults = {r \in ResultIds : r = result}
                  /\ activeSteps = {}

\* the choice that leads from question 1 to question 2
C10_Witness ==
    /\ lastOp = Op("handleDecisionTreeChoice", "", <<"2">>)
    /\ treeSnap.steps = {<<"1">>}
    /\ activeSteps = {<<"2">>}
    /\ decisionTreeStep = 2

\* the choice that leads from a question to the result 'rezoning-required'
C10_WitnessResult ==
    /\ lastOp = Op("handleDecisionTreeChoice", "rezoning-required", <<>>)
    /\ treeSnap.steps # {}
    /\ activeResults = {"rezoning-required"}
    /\ activeSteps = {}

\* the visible decision-tree nodes, questions and results together
VisibleNodes == Cardinality(activeSteps) + Cardinality(activeResults)

\* The last operation called showDecisionStep, and with which number.
CalledShowStep ==
    \/ lastOp.op = "openDecisionTreeModal"
    \/ lastOp.op = "handleDecisionTreeChoice" /\ lastOp.term # <<>>
    \/ lastOp.op = "goBackDecision" /\ treeSnap.step > 1
RequestedStep ==
    IF lastOp.op = "openDecisionTreeModal" THEN 1
    ELSE IF lastOp.op = "goBackDecision" THEN treeSnap.step - 1
    ELSE Denotes(lastOp.term)
\* The last operation called showDecisionResult (with lastOp.target).
CalledShowResult ==
    /\ lastOp.op = "handleDecisionTreeChoice"
    /\ lastOp.term = <<>>
    /\ lastOp.target # ""

\* C11: over any authored graph with unique ids, at most one decision-tree
\* node (question or result) is visible; right after a showDecisionStep or a
\* showDecisionResult none is visible exactly when its target node does not
\* exist, showDecisionStep records the requested step all the same, and
\* every other operation leaves the visible nodes as they were.
C11_AtMostOneNode ==
    /\ VisibleNodes <= 1
    /\ CalledShowStep =>
          /\ VisibleNodes = 0 <=> QuestionsNumbered(RequestedStep) = {}
          /\ decisionTreeStep = RequestedStep
    /\ CalledShowResult =>
          (VisibleNodes = 0 <=> lastOp.target \notin ResultIds)
    /\ ~(CalledShowStep \/ CalledShowResult) =>
          /\ activeSteps = treeSnap.steps
          /\ activeResults = treeSnap.results

\* a choice whose next step has no question: nothing is visible and the
\* requested step is recorded
C11_Witness ==
    /\ lastOp.op = "handleDecisionTreeChoice"
    /\ lastOp.term = <<"2">>
    /\ <<"2">> \notin questions
    /\ treeSnap.steps = {<<"1">>}
    /\ VisibleNodes = 0
    /\ decisionTreeStep = 2

\* a choice whose result has no node, made while a result was on display
C11_WitnessResult ==
    /\ CalledShowResult
    /\ lastOp.target = "unlisted"
    /\ treeSnap.results # {}
    /\ VisibleNodes = 0

\* a question shown in place of a result
C11_WitnessOne ==
    /\ CalledShowStep
    /\ treeSnap.results # {}
    /\ Cardinality(activeSteps) = 1
    /\ activeResults = {}

\* ------------------------------------------------------------------------
\* Properties of tab navigation (under SpecNav)
\* ------------------------------------------------------------------------
\* The last operation activated a tab: a tab click, a navigation key on a
\* tab, or a direct call of switchTab.
IsTabActivation ==
    \/ lastOp.op \in {"tabClick", "switchTab"}
    \/ lastOp.op = "tabKeydown" /\ lastOp.term[1] \in NavigationKeys

\* C12: every tab activation (click, ArrowLeft/ArrowRight/Home/End, direct
\* call of switchTab) sends exactly one ('Navigation', 'Tab Switch', T)
\* event, T being the value state.activeTab takes; every other operation
\* sends no event and leaves state.activeTab alone, so the ids sent are, in
\* order, the values state.activeTab takes.
C12_OneEventPerActivation ==
    [][IF IsTabActivation'
       THEN eventLog' = <<<<"Navigation", "Tab Switch", activeTab'>>>>
       ELSE eventLog' = <<>> /\ activeTab' = activeTab]_vars

\* ArrowLeft on the first tab: one event, carrying the last tab's id
C12_Witness ==
    /\ lastOp = Op("tabKeydown", "resident", <<"ArrowLeft">>)
    /\ activeTab = "planner"
    /\ eventLog = <<<<"Navigation", "Tab Switch", "planner">>>>

\* a tab click
C12_WitnessClick ==
    /\ lastOp = Op("tabClick", "developer", <<>>)
    /\ activeTab = "developer"
    /\ eventLog = <<<<"Navigation", "Tab Switch", "developer">>>>

\* a key that does not navigate sends nothing
C12_WitnessNoEvent ==
    /\ lastOp = Op("tabKeydown", "developer", <<"Enter">>)
    /\ activeTab = "developer"
    /\ eventLog = <<>>

\* the index the keyboard contract names for a key on the tab at index i of n
ContractIndex(n, i, key) ==
    CASE key = "ArrowRight" -> (i + 1) % n
      [] key = "ArrowLeft" -> (i - 1) % n
      [] key = "Home" -> 0
      [] key = "End" -> n - 1

\* C13: a keydown on the tab at index i of n tabs activates, within the same
\* key event, the tab at (i+1) mod n for ArrowRight, (i-1) mod n for
\* ArrowLeft, 0 for Home and n-1 for End: state.activeTab, the selected tab
\* control, the visible tab panel and the focus are those of that tab. Any
\* other key changes nothing; the one effect of such a key event lies
\* outside handleTabKeyboard, where the document's listener closes an open
\* glossary on Escape.
C13_KeyboardNavigation ==
    [][lastOp'.op = "tabKeydown" =>
         LET key == lastOp'.term[1]
             n == Len(TabOrder)
             i == IndexOfTab(lastOp'.target)
         IN  IF key \in NavigationKeys
             THEN LET tab == TabAt(ContractIndex(n, i, key))
                  IN  /\ \A m \in 1..MaxTabs : \A j \in 0..(m - 1) :
                            handleTabKeyboard(m, j, key)
                               = ContractIndex(m, j, key)
                      /\ activeTab' = tab
                      /\ tabSelected' = [t \in TabIds |-> t = tab]
                      /\ tabPanelHidden' =
                            [p \in TabPanelIds |-> p # tab \o "-panel"]
                      /\ focused' = tab
             ELSE /\ UNCHANGED <<tabVars, panelVars, treeVars, modalVars,
                                 authored, itemHidden, focused>>
                  /\ eventLog' = <<>> /\ alerts' = <<>>
                  /\ (key = "Escape" /\ ~glossaryHidden)
                     \/ UNCHANGED <<glossaryVars, timers>>]_vars

\* ArrowRight on the last tab wraps to the first
C13_Witness ==
    /\ lastOp = Op("tabKeydown", "planner", <<"ArrowRight">>)
    /\ activeTab = "resident"
    /\ tabSelected["resident"]
    /\ ~tabPanelHidden["resident-panel"]
    /\ focused = "resident"

\* ArrowLeft on the first tab wraps to the last
C13_WitnessLeft ==
    /\ lastOp = Op("tabKeydown", "resident", <<"ArrowLeft">>)
    /\ activeTab = "planner"
    /\ focused = "planner"

\* End on the middle tab
C13_WitnessEnd ==
    /\ lastOp = Op("tabKeydown", "developer", <<"End">>)
    /\ activeTab = "planner"

\* a key without a case, on a tab that is not the active one
C13_WitnessOtherKey ==
    /\ lastOp = Op("tabKeydown", "resident", <<"Enter">>)
    /\ activeTab = "planner"
    /\ focused = "planner"

\* ------------------------------------------------------------------------
\* Properties of collapseAllPanels over missing nodes (under SpecRemoval)
\* ------------------------------------------------------------------------
\* C14: collapseAllPanels, called while state.expandedPanels names panels
\* whose content node or trigger no longer exists, raises no error, hides
\* every listed panel that exists, clears the expanded flag of every listed
\* panel's trigger that exists, and leaves state.expandedPanels empty.
C14_CollapseSkipsMissing ==
    lastOp.op \in {"collapseAllPanels", "switchTab"}
    => /\ thrown = ""
       /\ expandedPanels = <<>>
       /\ \A p \in Range(snap.list) :
             /\ p \notin removed => panelHidden[p]
             /\ \A b \in Buttons \ removed :
                   AriaControls[b] = p => ariaExpanded[b] = "false"

\* two panels were listed, the first without its content node: the call
\* completes and the second is hidden and unflagged
C14_Witness ==
    /\ lastOp.op = "collapseAllPanels"
    /\ snap.list = <<"p1", "p2">>
    /\ "p1" \in removed
    /\ ~snap.hidden["p2"]
    /\ snap.aria["btn2"] = "true"
    /\ panelHidden["p2"]
    /\ ariaExpanded["btn2"] = "false"
    /\ expandedPanels = <<>>
    /\ thrown = ""

\* the first listed panel has lost its trigger
C14_WitnessButton ==
    /\ lastOp.op = "collapseAllPanels"
    /\ snap.list = <<"p1", "p2">>
    /\ "btn1" \in removed
    /\ ~snap.hidden["p1"]
    /\ panelHidden["p1"] /\ panelHidden["p2"]
    /\ expandedPanels = <<>>

\* unlike collapseAllPanels, a click on the trigger of a missing panel
\* ends in a TypeError
C14_WitnessToggleThrows ==
    /\ lastOp.op = "toggleDetailPanel"
    /\ thrown = "TypeError"

\* ------------------------------------------------------------------------
\* Properties of the modal lifecycle (under SpecTree)
\* ------------------------------------------------------------------------
\* C15: from the modal closed and the page unlocked, over open-button
\* clicks, close-control clicks, clicks on the modal root, clicks on content
\* inside the modal and Escape inside the modal, the body scroll lock is set
\* exactly while the modal is visible; a click whose target is inside the
\* modal root leaves the modal open; a click on the root itself, the close
\* control and Escape each close it and release the lock.
C15_ScrollLockIffVisible ==
    /\ bodyOverflow = "hidden" <=> ~modalHidden
    /\ bodyOverflow \in {"", "hidden"}
    /\ (lastOp.op = "modalClick" /\ lastOp.target # "decisionTreeModal")
          => ~modalHidden /\ ~treeSnap.hidden
    /\ \/ lastOp.op = "closeButtonClick"
       \/ lastOp = Op("modalClick", "decisionTreeModal", <<>>)
       \/ lastOp = Op("modalKeydown", "Escape", <<>>)
       => modalHidden /\ bodyOverflow = "" /\ ~treeSnap.hidden

\* a click on the backdrop has closed the open modal
C15_Witness ==
    /\ lastOp = Op("modalClick", "decisionTreeModal", <<>>)
    /\ ~treeSnap.hidden
    /\ modalHidden
    /\ bodyOverflow = ""

\* a click on the content of the open modal
C15_WitnessDescendant ==
    /\ lastOp = Op("modalClick", "modalContent", <<>>)
    /\ ~modalHidden
    /\ bodyOverflow = "hidden"

\* Escape inside the modal
C15_WitnessEscape ==
    /\ lastOp = Op("modalKeydown", "Escape", <<>>)
    /\ modalHidden
    /\ bodyOverflow = ""

\* the modal opened again after it was closed
C15_WitnessReopen ==
    /\ lastOp.op = "openDecisionTreeModal"
    /\ treeSnap.hidden
    /\ treeSnap.step > 1
    /\ ~modalHidden
    /\ bodyOverflow = "hidden"

\* ------------------------------------------------------------------------
\* Properties of the glossary overlay and of Escape (under SpecOverlay)
\* ------------------------------------------------------------------------
GlossaryAgrees ==
    /\ glossaryOpen <=> ~glossaryHidden
    /\ glossaryToggleExpanded = IF glossaryOpen THEN "true" ELSE "false"

\* The step's handler ran toggleGlossary: the two glossary buttons, Ctrl/Cmd+G
\* anywhere on the page outside the modal and the tabs, Escape anywhere
\* while the overlay is visible.
RanToggleGlossary ==
    \/ lastOp'.op \in {"glossaryToggleClick", "glossaryCloseClick"}
    \/ lastOp' = Op("documentKeydown", "ctrl", <<"g">>)
    \/ /\ lastOp'.op = "documentKeydown"
       /\ lastOp'.term = <<"Escape">>
       /\ ~glossaryHidden
    \/ lastOp' = Op("modalKeydown", "Escape", <<>>) /\ ~glossaryHidden

\* C16: from the glossary closed, over toggle-button clicks, close-button
\* clicks, Escape and Ctrl/Cmd+G, state.glossaryOpen, the overlay's
\* visibility and the toggle button's aria-expanded agree in every state;
\* every run of toggleGlossary flips the three together and nothing else
\* changes any of them.
C16_GlossaryInSync ==
    [][/\ GlossaryAgrees
       /\ GlossaryAgrees'
       /\ IF RanToggleGlossary
          THEN /\ glossaryOpen' = ~glossaryOpen
               /\ glossaryHidden' = ~glossaryHidden
               /\ glossaryToggleExpanded' # glossaryToggleExpanded
          ELSE UNCHANGED glossaryVars]_vars

\* Ctrl/Cmd+G has opened the glossary
C16_Witness ==
    /\ lastOp = Op("documentKeydown", "ctrl", <<"g">>)
    /\ glossaryOpen
    /\ ~glossaryHidden
    /\ glossaryToggleExpanded = "true"

\* the close button has closed it
C16_WitnessClose ==
    /\ lastOp.op = "glossaryCloseClick"
    /\ ~treeSnap.glossaryHidden
    /\ ~glossaryOpen
    /\ glossaryHidden
    /\ glossaryToggleExpanded = "false"

\* C17: an Escape key press leaves the glossary closed, whether it was open
\* or not; Escape inside the open modal closes the modal and, through the
\* document's own listener, the glossary as well; Escape outside the modal
\* leaves the modal's visibility and the scroll lock as they were.
C17_EscapeListeners ==
    [][/\ (lastOp'.op = "documentKeydown" /\ lastOp'.term = <<"Escape">>)
            => /\ glossaryHidden' /\ ~glossaryOpen'
               /\ UNCHANGED modalVars
       /\ lastOp' = Op("modalKeydown", "Escape", <<>>)
            => /\ glossaryHidden' /\ ~glossaryOpen'
               /\ modalHidden' /\ bodyOverflow' = ""]_vars

\* one Escape inside the modal has closed the modal and the glossary
C17_Witness ==
    /\ lastOp = Op("modalKeydown", "Escape", <<>>)
    /\ ~treeSnap.hidden
    /\ modalHidden
    /\ ~treeSnap.glossaryHidden
    /\ glossaryHidden
    /\ ~glossaryOpen

\* Escape outside the modal, glossary closed, modal open: nothing opens or
\* closes
C17_WitnessOutside ==
    /\ lastOp = Op("documentKeydown", "", <<"Escape">>)
    /\ ~modalHidden
    /\ bodyOverflow = "hidden"
    /\ glossaryHidden

\* ------------------------------------------------------------------------
\* Properties of the deferred actions (under SpecLive, SpecSearch, SpecDefer)
\* ------------------------------------------------------------------------
PendingClears == SelectSeq(timers, LAMBDA t : t.kind = "clearHighlight")

\* C18: under fair timer firing every highlight marker is removed in the
\* end and every pending highlight-clear timer fires; right after a
\* highlight-clear timer has fired no element carries a marker, whatever
\* happened in between; and while no further search is made the highlighted
\* set stays empty.
C18_HighlightsSelfClear ==
    /\ (highlighted # {}) ~> (highlighted = {})
    /\ (PendingClears # <<>>) ~> (lastOp.op = "clearHighlight")
    /\ [][lastOp'.op = "clearHighlight" => highlighted' = {}]_vars
    /\ [][(highlighted = {} /\ lastOp'.op # "performSearch")
            => highlighted' = {}]_vars

\* the timer of an earlier search has fired while a tab switch and a later
\* search lay in between
C18_Witness ==
    /\ lastOp.op = "clearHighlight"
    /\ highlighted = {}
    /\ Len(PendingClears) = 1
    /\ activeTab = "developer"

\* the highlight timer scheduled last, as a sequence of at most one timer
LatestClear ==
    IF PendingClears = <<>> THEN <<>>
    ELSE <<PendingClears[Len(PendingClears)]>>

\* 'the elements highlighted by a search keep their marker until that
\* search's own timer fires', for the latest search
LatestMarkersKept ==
    \A k \in 1..Len(LatestClear) : LatestClear[k].elems \subseteq highlighted

\* C19: highlight timers are not coordinated: a timer that fires removes
\* every marker on the page, those of a later search whose own timer is
\* still pending included; the markers of the latest search are lost before
\* its own timer fires only together with every other marker.
C19_StaleTimerClearsLater ==
    /\ (lastOp.op = "clearHighlight" /\ PendingClears # <<>>)
          => highlighted = {}
    /\ ~LatestMarkersKept => highlighted = {}

\* search A, then search B before A's timer, then A's timer: B's markers,
\* on display until then, are gone while B's own timer is still pending
C19_Witness ==
    /\ lastOp.op = "clearHighlight"
    /\ Len(PendingClears) = 1
    /\ PendingClears[1].elems # {}
    /\ snap.hl = PendingClears[1].elems
    /\ highlighted = {}
    /\ ~LatestMarkersKept

TimerKinds == {"scroll", "focus", "clearHighlight", "dismiss", "remove"}
IsPrefix(s, t) == Len(s) <= Len(t) /\ SubSeq(t, 1, Len(s)) = s

\* C20: no deferred action is retracted: a timer scheduled by
\* toggleDetailPanel (scroll), toggleGlossary (focus), highlightSearchResults
\* (clear highlights) or showNotification (dismiss, then remove) stays
\* pending until it fires. A step that is not a timer firing only adds to
\* the pending timers, and a firing takes away the fired timer alone.
C20_NoTimerRetracted ==
    [][IF lastOp'.op \in TimerKinds
       THEN \E i \in 1..Len(timers) :
               /\ timers[i].kind = lastOp'.op
               /\ IsPrefix(RemoveAt(timers, i), timers')
       ELSE IsPrefix(timers, timers')]_vars

\* the glossary's focus timer fires after the glossary was closed again
C20_Witness ==
    /\ lastOp.op = "focus"
    /\ glossaryHidden
    /\ ~glossaryOpen

\* a panel's scroll timer fires after a tab switch has collapsed the panel
C20_WitnessScroll ==
    /\ lastOp = Op("scroll", "p1", <<>>)
    /\ panelHidden["p1"]
    /\ expandedPanels = <<>>
    /\ activeTab = "developer"

\* a notification's dismiss timer fires after the tab was switched
C20_WitnessDismiss ==
    /\ lastOp.op = "dismiss"
    /\ activeTab = "developer"

\* ------------------------------------------------------------------------
\* Properties of results and back-navigation (under SpecTree)
\* ------------------------------------------------------------------------
\* C21: showDecisionResult leaves state.decisionTreeStep as it was, so while
\* a result reached from question N is on display the recorded step is N
\* (the question on display is always the one the step numbers); goBack
\* with a result on display then shows question N-1, not N, when N > 1, and
\* changes nothing, the result staying on display, when N is 1.
C21_ResultKeepsStep ==
    /\ activeSteps # {} => activeSteps = QuestionsNumbered(decisionTreeStep)
    /\ CalledShowResult =>
          /\ decisionTreeStep = treeSnap.step
          /\ treeSnap.steps # {} =>
                treeSnap.steps = QuestionsNumbered(decisionTreeStep)
    /\ (lastOp.op = "goBackDecision" /\ treeSnap.results # {}) =>
          IF treeSnap.step > 1
          THEN /\ decisionTreeStep = treeSnap.step - 1
               /\ activeSteps = QuestionsNumbered(treeSnap.step - 1)
               /\ activeSteps \cap QuestionsNumbered(treeSnap.step) = {}
               /\ activeResults = {}
          ELSE /\ decisionTreeStep = treeSnap.step
               /\ activeSteps = {}
               /\ activeResults = treeSnap.results

\* a result chosen on question 2: the step is still 2
C21_Witness ==
    /\ CalledShowResult
    /\ treeSnap.steps = {<<"2">>}
    /\ treeSnap.step = 2
    /\ activeResults = {"no-rezoning"}
    /\ activeSteps = {}
    /\ decisionTreeStep = 2

\* back from the result reached from question 2: question 1, not 2
C21_WitnessBack ==
    /\ lastOp.op = "goBackDecision"
    /\ treeSnap.results = {"no-rezoning"}
    /\ treeSnap.step = 2
    /\ activeSteps = {<<"1">>}
    /\ activeResults = {}
    /\ decisionTreeStep = 1

\* back from a result reached from question 1: the result stays
C21_WitnessBackAtOne ==
    /\ lastOp.op = "goBackDecision"
    /\ treeSnap.results = {"rezoning-required"}
    /\ treeSnap.step = 1
    /\ activeResults = {"rezoning-required"}
    /\ activeSteps = {}
    /\ decisionTreeStep = 1

\* ------------------------------------------------------------------------
\* Properties of persistence (under SpecPersist)
\* ------------------------------------------------------------------------
NoDuplicatePanels ==
    \A i, j \in 1..Len(expandedPanels) :
        expandedPanels[i] = expandedPanels[j] => i = j
PanelsAgree == Range(expandedPanels) = {p \in Panels : ~panelHidden[p]}
GlossaryStateAgrees == glossaryOpen <=> ~glossaryHidden
ActiveTabSelected == {t \in TabIds : tabSelected[t]} = {activeTab}

\* C22: after saveState in any reachable state, a fresh session, loadState
\* and any sequence of toggleDetailPanel, switchTab, toggleGlossary and
\* performSearch events, state.expandedPanels has no duplicates and agrees
\* with the set of visible panels, state.glossaryOpen agrees with the
\* overlay's visibility and state.activeTab names the one selected tab.
C22_InvariantsSurviveLoad ==
    /\ NoDuplicatePanels
    /\ PanelsAgree
    /\ GlossaryStateAgrees
    /\ ActiveTabSelected

====
